---- MODULE Spec2Model ----
(***************************************************************************)
(* The seating-chart attendance tool of src/script.js as a state machine:  *)
(* the per-date attendance mapping, its localStorage records, the seat     *)
(* registry with its colour materials, the hover highlight and the ray     *)
(* hit-test that resolves a pointer event to a seat.                       *)
(*                                                                         *)
(* Every event handler of the page is one action; the page is single       *)
(* threaded, so a handler runs to its end (or to the exception that ends   *)
(* it) before the next event is dispatched.                                *)
(***************************************************************************)
EXTENDS Integers, Sequences, FiniteSets, TLC

VARIABLES
    domLoaded,          \* DOMContentLoaded has been dispatched (init ran)
    sceneInitialized,   \* script.js:57
    currentDateKey,     \* script.js:47
    attendanceState,    \* script.js:48
    localStorage,       \* the origin's key-value store, storage key -> raw text
    seatRefs,           \* script.js:59, the seat ids registered
    materialColor,      \* seat id -> colour of the seat's colorMaterial
    materialEmissive,   \* seat id -> emissive colour of the seat's colorMaterial
    hoveredSeatMesh,    \* script.js:56
    countPresent,       \* text of #count-present
    countAbsent,        \* text of #count-absent
    uncaught,           \* the handler that ran last ended in an exception
    download            \* the file the handler that ran last handed to the browser

vars == <<domLoaded, sceneInitialized, currentDateKey, attendanceState,
          localStorage, seatRefs, materialColor, materialEmissive,
          hoveredSeatMesh, countPresent, countAbsent, uncaught, download>>

(***************************************************************************)
(* Bounds                                                                  *)
(***************************************************************************)

\* Number of roster seats kept: the k-th kept seat is taken from column
\* k mod 4, so two seats are the first students of columns 0 and 1.
MaxSeats == 2

(***************************************************************************)
(* Roster and constants                                                    *)
(***************************************************************************)

COLUMN_DATA ==
    << <<"PARAICO", "DE JOSE", "DIAZ", "BONSATO">>,
       <<"CADIZ", "DAYAWON", "BALANE">>,
       <<"SALAO", "CAMACHO", "MANANSALA", "FORTEZ", "MAGNAYE", "MERABONA",
         "GOYLOS", "BERNARDO">>,
       <<"RIVERA", "CABELLO", "MULAT", "ANSAL", "ABIT", "BAUTISTA">> >>

Min(a, b) == IF a < b THEN a ELSE b

\* How many students of column c (1-based) are kept under MaxSeats.
Quota(c) ==
    Min((MaxSeats + Len(COLUMN_DATA) - c) \div Len(COLUMN_DATA),
        Len(COLUMN_DATA[c]))

\* COLUMN_DATA cut to MaxSeats seats; every loop of the code over COLUMN_DATA
\* is a loop over Roster here.
Roster == [c \in 1..Len(COLUMN_DATA) |-> SubSeq(COLUMN_DATA[c], 1, Quota(c))]

STATUS_SEQUENCE == <<"unmarked", "present", "absent">>

STATUS_COLORS ==
    [unmarked |-> 13817828, present |-> 3848570, absent |-> 16014185]

STORAGE_PREFIX == "attendance-map::"

\* The dates the user can pick (and the date init finds as today).
DateKeys == {"2024-01-01", "2024-01-02"}

\* `c${colIdx}-${student}`, colIdx counted from 0.
SeatId(colIdx, student) == <<colIdx, student>>

NoSeat == <<-1, "">>

\* The (seatId, student) pairs in the order COLUMN_DATA.forEach /
\* students.forEach visits them.
RECURSIVE SeatsFrom(_)
SeatsFrom(c) ==
    IF c > Len(Roster) THEN <<>>
    ELSE [r \in 1..Len(Roster[c]) |->
             [seatId |-> SeatId(c - 1, Roster[c][r]), student |-> Roster[c][r]]]
         \o SeatsFrom(c + 1)

RosterSeats == SeatsFrom(1)

RosterSeatIds == {RosterSeats[i].seatId : i \in 1..Len(RosterSeats)}

RECURSIVE SumLengths(_)
SumLengths(c) == IF c > Len(Roster) THEN 0 ELSE Len(Roster[c]) + SumLengths(c + 1)

TOTAL_SEATS == SumLengths(1)

\* A seat id that a stored record may carry although no seat of the roster has it.
StaleSeatId == SeatId(0, "REMOVED")

(***************************************************************************)
(* JavaScript values and JSON text                                         *)
(***************************************************************************)

Undefined == "undefined"

EmptyEntries == [k \in {} |-> Undefined]

\* What JSON.parse can hand to attendanceState: an object or null.
JsObject(entries) == [kind |-> "object", entries |-> entries]
JsNull == [kind |-> "null", entries |-> EmptyEntries]

\* obj[key] of an object; undefined when obj has no such property.
GetProp(obj, key) ==
    IF key \in DOMAIN obj.entries THEN obj.entries[key] ELSE Undefined

\* obj[key] = value
SetProp(obj, key, value) ==
    JsObject([k \in (DOMAIN obj.entries) \cup {key} |->
                 IF k = key THEN value ELSE obj.entries[k]])

\* v || "unmarked"
OrUnmarked(v) == IF v = Undefined \/ v = "" THEN "unmarked" ELSE v

\* The raw text of localStorage: getItem's null for a missing key, the
\* empty string, text that is no JSON, the text "null", and the text of an
\* object, held as its set of "key":"value" members.
RawText(kind, members) == [kind |-> kind, members |-> members]
NoItem == RawText("missing", {})
EmptyText == RawText("empty", {})
GarbageText == RawText("garbage", {})
NullText == RawText("null", {})

\* JSON.stringify: a property whose value is undefined is left out.
JSONstringify(value) ==
    IF value.kind = "null" THEN NullText
    ELSE RawText("object",
                 {<<k, value.entries[k]>> :
                      k \in {x \in DOMAIN value.entries :
                                value.entries[x] # Undefined}})

\* JSON.parse: throws a SyntaxError on text that is no JSON.
JSONparse(raw) ==
    IF raw.kind = "object"
    THEN [threw |-> FALSE,
          value |-> JsObject([k \in {m[1] : m \in raw.members} |->
                                 (CHOOSE m \in raw.members : m[1] = k)[2]])]
    ELSE IF raw.kind = "null"
    THEN [threw |-> FALSE, value |-> JsNull]
    ELSE [threw |-> TRUE, value |-> JsNull]

storageKeyForDate(dateKey) == <<STORAGE_PREFIX, dateKey>>

StorageKeys == {storageKeyForDate(d) : d \in DateKeys}

\* raw ? JSON.parse(raw) : {}   (null and "" are falsy)
loadStateForDate(dateKey) ==
    LET raw == localStorage[storageKeyForDate(dateKey)]
    IN  IF raw.kind \in {"missing", "empty"}
        THEN [threw |-> FALSE, value |-> JsObject(EmptyEntries)]
        ELSE JSONparse(raw)

\* localStorage after saveStateForDate() with the given globals.
saveStateForDate(dateKey, state) ==
    [localStorage EXCEPT ![storageKeyForDate(dateKey)] = JSONstringify(state)]

\* STATUS_SEQUENCE.indexOf(x), counted from 0, -1 when absent.
IndexOf(seq, x) ==
    IF \E i \in 1..Len(seq) : seq[i] = x
    THEN (CHOOSE i \in 1..Len(seq) :
              seq[i] = x /\ \A j \in 1..(i - 1) : seq[j] # x) - 1
    ELSE -1

\* nextStatus stepping the other way through STATUS_SEQUENCE.
nextStatus_backwards(current) ==
    LET cur == IF current = Undefined THEN "unmarked" ELSE current
        idx == IndexOf(STATUS_SEQUENCE, cur)
    IN  STATUS_SEQUENCE[((idx + Len(STATUS_SEQUENCE) - 1) % Len(STATUS_SEQUENCE)) + 1]

nextStatus(current) ==
    LET cur == IF current = Undefined THEN "unmarked" ELSE current
        idx == IndexOf(STATUS_SEQUENCE, cur)
    IN  STATUS_SEQUENCE[((idx + 1) % Len(STATUS_SEQUENCE)) + 1]

\* Object.values(attendanceState).filter(s => s === status).length
CountOf(state, status) ==
    Cardinality({k \in DOMAIN state.entries : state.entries[k] = status})

(***************************************************************************)
(* The scene graph                                                         *)
(***************************************************************************)

Node(kind, seat) == [kind |-> kind, seat |-> seat]

NoNode == Node("null", NoSeat)
SceneNode == Node("scene", NoSeat)

\* The meshes createChairAndMonitor adds to a chairGroup.
ChairParts ==
    {"seat", "back", "base", "leg0", "leg1", "leg2", "leg3", "monitor", "stand"}

\* Meshes and sprites added to the scene itself: one table per column, one
\* name label per seat, the floor and a wall.
Decorations ==
    {Node("table", SeatId(c - 1, "")) : c \in 1..Len(Roster)}
    \cup {Node("label", s) : s \in RosterSeatIds}
    \cup {Node("floor", NoSeat), Node("wall", NoSeat)}

SeatMeshes == {Node(p, s) : p \in ChairParts, s \in RosterSeatIds}

\* Everything a ray can strike.
Hittable == SeatMeshes \cup Decorations

\* object.parent
Parent(node) ==
    IF node.kind \in ChairParts THEN Node("chairGroup", node.seat)
    ELSE IF node.kind = "chairGroup" THEN Node("cluster", node.seat)
    ELSE IF node.kind \in {"cluster", "table", "label", "floor", "wall"}
    THEN SceneNode
    ELSE NoNode

\* object.userData?.seatId : only a cluster is tagged (script.js:407).
UserDataSeatId(node) == IF node.kind = "cluster" THEN node.seat ELSE NoSeat

\* seatRefs.get(seatId).colorMeshes
ColorMeshes(seatId) ==
    <<Node("seat", seatId), Node("back", seatId), Node("base", seatId)>>

\* seatRefs.get(seatId).root
SeatRoot(seatId) == Node("cluster", seatId)

getSeatTargets == {SeatRoot(s) : s \in seatRefs}

RECURSIVE IsUnder(_, _)
IsUnder(node, roots) ==
    IF node = NoNode THEN FALSE
    ELSE IF node \in roots THEN TRUE
    ELSE IsUnder(Parent(node), roots)

\* raycaster.intersectObjects(roots, true): of the objects along the ray,
\* nearest first, those that are roots or their descendants.
intersectObjects(roots, ray) == SelectSeq(ray, LAMBDA n : IsUnder(n, roots))

\* climbToSeat that looks at the parent only instead of climbing on.
climbToSeat_oneLevel(object) ==
    IF object # NoNode /\ UserDataSeatId(object) = NoSeat
    THEN Parent(object)
    ELSE object

RECURSIVE climbToSeat(_)
climbToSeat(object) ==
    IF object # NoNode /\ UserDataSeatId(object) = NoSeat
    THEN climbToSeat(Parent(object))
    ELSE object

\* NoSeat stands for null.
findSeatIdFromIntersection(intersection) ==
    LET seatObject == climbToSeat(intersection)
    IN  IF seatObject = NoNode THEN NoSeat ELSE UserDataSeatId(seatObject)

\* The seat id whose seatRef is returned, NoSeat for null; the intersection
\* is NoNode when intersects[0] is undefined.
findSeatRefFromIntersection(intersection) ==
    IF intersection = NoNode THEN NoSeat
    ELSE LET seatObject == climbToSeat(intersection)
         IN  IF seatObject = NoNode THEN NoSeat
             ELSE IF UserDataSeatId(seatObject) \in seatRefs
                  THEN UserDataSeatId(seatObject)
                  ELSE NoSeat

\* seat, back and base of one chair share one colorMaterial (script.js:437).
MaterialOf(mesh) == mesh.seat

(***************************************************************************)
(* Initial state: the page before DOMContentLoaded                         *)
(***************************************************************************)

NoDate == "null"

NoFile == [name |-> <<>>, rows |-> <<>>]

NoMaterials == [s \in {} |-> 0]

\* Records of the spec's shape, seat ids mapped to "present" or "absent",
\* with or without an entry for a seat the roster no longer has. The empty
\* record "{}" is not drawn here: resetDay writes it.
WellFormedTexts ==
    {JSONstringify(JsObject(f)) :
        f \in UNION {[K -> {"present", "absent"}] :
                        K \in (SUBSET RosterSeatIds) \ {{}}}}
    \cup
    {JSONstringify(JsObject(SetProp(JsObject(f), StaleSeatId, "present").entries)) :
        f \in UNION {[K -> {"present", "absent"}] : K \in SUBSET RosterSeatIds}}

\* Payloads the page did not write: "", text that is no JSON, and "null".
CorruptTexts == {EmptyText, GarbageText, NullText}

InitWith(payloads) ==
    /\ domLoaded = FALSE
    /\ sceneInitialized = FALSE
    /\ currentDateKey = NoDate
    /\ attendanceState = JsObject(EmptyEntries)
    /\ localStorage \in [StorageKeys -> payloads]
    /\ seatRefs = {}
    /\ materialColor = NoMaterials
    /\ materialEmissive = NoMaterials
    /\ hoveredSeatMesh = NoNode
    /\ countPresent = 0
    /\ countAbsent = 0
    /\ uncaught = FALSE
    /\ download = NoFile

Init == InitWith({NoItem} \cup WellFormedTexts \cup CorruptTexts)

(***************************************************************************)
(* Handlers                                                                *)
(***************************************************************************)

\* The colour every registered seat gets from the given state.
DeskColors(refs, state) ==
    [s \in refs |-> STATUS_COLORS[OrUnmarked(GetProp(state, s))]]

\* updateCounts(); Object.values(null) throws, which the callers test before.
updateCounts(state) ==
    /\ countPresent' = CountOf(state, "present")
    /\ countAbsent' = CountOf(state, "absent")

\* refreshDeskColors() with attendanceState = state: reading a property of
\* null throws a TypeError at the first seat, before any colour is set.
refreshDeskColors(state) ==
    IF state.kind = "null"
    THEN /\ uncaught' = TRUE
         /\ UNCHANGED <<materialColor, countPresent, countAbsent>>
    ELSE /\ uncaught' = FALSE
         /\ materialColor' = DeskColors(seatRefs, state)
         /\ updateCounts(state)

\* buildScene() with attendanceState = state. buildDesksAndChairs clears
\* seatRefs and reads attendanceState[seatId] for the first seat: on null
\* that throws, and neither the listeners of the canvas nor
\* sceneInitialized = true are reached.
buildScene(state) ==
    IF state.kind = "null"
    THEN /\ uncaught' = TRUE
         /\ seatRefs' = {}
         /\ UNCHANGED <<sceneInitialized, materialColor, materialEmissive,
                        countPresent, countAbsent>>
    ELSE /\ uncaught' = FALSE
         /\ seatRefs' = RosterSeatIds
         /\ materialColor' = DeskColors(RosterSeatIds, state)
         /\ materialEmissive' = [s \in RosterSeatIds |-> 0]
         /\ updateCounts(state)
         /\ sceneInitialized' = TRUE

hydrateForDate(dateKey) ==
    LET loaded == loadStateForDate(dateKey)
    IN  /\ currentDateKey' = dateKey
        /\ IF loaded.threw
           THEN /\ uncaught' = TRUE
                /\ UNCHANGED <<attendanceState, sceneInitialized, seatRefs,
                               materialColor, materialEmissive,
                               countPresent, countAbsent>>
           ELSE /\ attendanceState' = loaded.value
                /\ IF ~sceneInitialized
                   THEN buildScene(loaded.value)
                   ELSE /\ refreshDeskColors(loaded.value)
                        /\ UNCHANGED <<sceneInitialized, seatRefs,
                                       materialEmissive>>

\* DOMContentLoaded. The change, reset and export listeners are added after
\* hydrateForDate returns, the canvas listeners at the end of buildScene: all
\* of them exist exactly when sceneInitialized became true here.
init(isoToday) ==
    /\ ~domLoaded
    /\ domLoaded' = TRUE
    /\ hydrateForDate(isoToday)
    /\ download' = NoFile
    /\ UNCHANGED <<localStorage, hoveredSeatMesh>>

\* The change listener of the date input (script.js:637).
dateChange(value) ==
    /\ sceneInitialized
    /\ hydrateForDate(value)
    /\ download' = NoFile
    /\ UNCHANGED <<domLoaded, localStorage, hoveredSeatMesh>>

applySeatStatus(seatId, status) ==
    LET newState == SetProp(attendanceState, seatId, status)
    IN  /\ attendanceState' = newState
        /\ materialColor' =
              IF seatId \in seatRefs
              THEN [materialColor EXCEPT ![seatId] = STATUS_COLORS[status]]
              ELSE materialColor
        /\ localStorage' = saveStateForDate(currentDateKey, newState)
        /\ updateCounts(newState)

Returns ==
    /\ uncaught' = FALSE
    /\ UNCHANGED <<attendanceState, localStorage, materialColor,
                   countPresent, countAbsent>>

Throws ==
    /\ uncaught' = TRUE
    /\ UNCHANGED <<attendanceState, localStorage, materialColor,
                   countPresent, countAbsent>>

\* ray: the objects of the scene along the pointer's ray, nearest first.
\* The seat id handlePointerDown goes on with, NoSeat where it returns early
\* (no intersection, or no tagged ancestor).
resolvePointerDown(ray) ==
    LET intersects == intersectObjects(getSeatTargets, ray)
    IN  IF Len(intersects) = 0 THEN NoSeat
        ELSE findSeatIdFromIntersection(intersects[1])

\* handlePointerDown once the ray is resolved to seatId.
pointerDownAt(seatId) ==
    /\ sceneInitialized
    /\ download' = NoFile
    /\ UNCHANGED <<domLoaded, sceneInitialized, currentDateKey, seatRefs,
                   materialEmissive, hoveredSeatMesh>>
    /\ IF seatId = NoSeat THEN Returns
       ELSE IF attendanceState.kind = "null" THEN Throws
       ELSE /\ applySeatStatus(seatId,
                               nextStatus(GetProp(attendanceState, seatId)))
            /\ uncaught' = FALSE

handlePointerDown(ray) == pointerDownAt(resolvePointerDown(ray))

\* The mesh handlePointerMove compares with hoveredSeatMesh: colorMeshes[0]
\* of the seat of the nearest intersection, NoNode for null.
resolvePointerMove(ray) ==
    LET intersects == intersectObjects(getSeatTargets, ray)
        first == IF Len(intersects) = 0 THEN NoNode ELSE intersects[1]
        seatRef == findSeatRefFromIntersection(first)
    IN  IF seatRef = NoSeat THEN NoNode ELSE ColorMeshes(seatRef)[1]

\* pointerMoveAt without the reset of the previous highlight.
pointerMoveAt_keepsOld(mesh) ==
    /\ sceneInitialized
    /\ uncaught' = FALSE
    /\ download' = NoFile
    /\ UNCHANGED <<domLoaded, sceneInitialized, currentDateKey,
                   attendanceState, localStorage, seatRefs, materialColor,
                   countPresent, countAbsent>>
    /\ IF mesh # hoveredSeatMesh
       THEN /\ hoveredSeatMesh' = mesh
            /\ materialEmissive' =
                  IF mesh # NoNode
                  THEN [materialEmissive EXCEPT ![MaterialOf(mesh)] = 5592405]
                  ELSE materialEmissive
       ELSE UNCHANGED <<hoveredSeatMesh, materialEmissive>>

\* handlePointerMove once the ray is resolved to mesh.
pointerMoveAt(mesh) ==
    /\ sceneInitialized
    /\ uncaught' = FALSE
    /\ download' = NoFile
    /\ UNCHANGED <<domLoaded, sceneInitialized, currentDateKey,
                   attendanceState, localStorage, seatRefs, materialColor,
                   countPresent, countAbsent>>
    /\ LET cleared ==
               IF hoveredSeatMesh # NoNode
               THEN [materialEmissive EXCEPT ![MaterialOf(hoveredSeatMesh)] = 0]
               ELSE materialEmissive
       IN  IF mesh # hoveredSeatMesh
           THEN /\ hoveredSeatMesh' = mesh
                /\ materialEmissive' =
                      IF mesh # NoNode
                      THEN [cleared EXCEPT ![MaterialOf(mesh)] = 5592405]
                      ELSE cleared
           ELSE UNCHANGED <<hoveredSeatMesh, materialEmissive>>

handlePointerMove(ray) == pointerMoveAt(resolvePointerMove(ray))

\* resetDay without saveStateForDate().
resetDay_unsaved ==
    /\ sceneInitialized
    /\ attendanceState' = JsObject(EmptyEntries)
    /\ refreshDeskColors(JsObject(EmptyEntries))
    /\ download' = NoFile
    /\ UNCHANGED <<domLoaded, sceneInitialized, currentDateKey, seatRefs,
                   materialEmissive, hoveredSeatMesh, localStorage>>

resetDay ==
    /\ sceneInitialized
    /\ attendanceState' = JsObject(EmptyEntries)
    /\ localStorage' = saveStateForDate(currentDateKey, JsObject(EmptyEntries))
    /\ refreshDeskColors(JsObject(EmptyEntries))
    /\ download' = NoFile
    /\ UNCHANGED <<domLoaded, sceneInitialized, currentDateKey, seatRefs,
                   materialEmissive, hoveredSeatMesh>>

\* The rows exportCSV builds from the given globals.
ExportRows(dateKey, state) ==
    <<<<"Date", "Student", "Status">>>>
    \o [i \in 1..Len(RosterSeats) |->
           <<dateKey, RosterSeats[i].student,
             OrUnmarked(GetProp(state, RosterSeats[i].seatId))>>]

\* Reading attendanceState[seatId] of null throws before the file is made.
exportCSV ==
    /\ sceneInitialized
    /\ IF attendanceState.kind = "null" /\ Len(RosterSeats) > 0
       THEN /\ uncaught' = TRUE
            /\ download' = NoFile
       ELSE /\ uncaught' = FALSE
            /\ download' = [name |-> <<"attendance", currentDateKey>>,
                            rows |-> ExportRows(currentDateKey, attendanceState)]
    /\ UNCHANGED <<domLoaded, sceneInitialized, currentDateKey,
                   attendanceState, localStorage, seatRefs, materialColor,
                   materialEmissive, hoveredSeatMesh, countPresent,
                   countAbsent>>

(***************************************************************************)
(* Specifications                                                          *)
(***************************************************************************)

\* Pointer rays that strike nothing or the seat pad of one chair.
PadRays == {<<>>} \cup {<<Node("seat", s)>> : s \in RosterSeatIds}

\* Pointer rays through up to two objects of the scene, nearest first: any
\* single object, or a backrest, a label or the floor in front of a seat pad
\* or of the floor.
Rays ==
    {<<>>} \cup {<<a>> : a \in Hittable}
    \cup {<<a, b>> :
             a \in {Node("back", s) : s \in RosterSeatIds}
                   \cup {Node("label", s) : s \in RosterSeatIds}
                   \cup {Node("floor", NoSeat)},
             b \in {Node("seat", s) : s \in RosterSeatIds}
                   \cup {Node("floor", NoSeat)}}

Next ==
    \/ \E isoToday \in DateKeys : init(isoToday)
    \/ \E value \in DateKeys : dateChange(value)
    \/ \E ray \in PadRays : handlePointerDown(ray)
    \/ \E ray \in PadRays : handlePointerMove(ray)
    \/ resetDay
    \/ exportCSV

\* The page over any content of the store.
Spec == Init /\ [][Next]_vars

\* The page over a store whose records are missing or well-formed.
InitWellFormed == InitWith({NoItem} \cup WellFormedTexts)

SpecWellFormed == InitWellFormed /\ [][Next]_vars

\* The page over an empty store, its user staying on the day it opened,
\* with every ray of Rays for the pointer.
InitPointer == InitWith({NoItem})

NextPointer ==
    \/ \E isoToday \in DateKeys : init(isoToday)
    \/ dateChange(currentDateKey)
    \/ \E ray \in Rays : handlePointerDown(ray)
    \/ \E ray \in Rays : handlePointerMove(ray)
    \/ resetDay
    \/ exportCSV

SpecPointer == InitPointer /\ [][NextPointer]_vars

(***************************************************************************)
(* Vocabulary of the properties                                            *)
(***************************************************************************)

EmptyState == JsObject(EmptyEntries)

\* get(seatId): the recorded status, unmarked for a seat with no entry.
StatusOf(state, seatId) == OrUnmarked(GetProp(state, seatId))

\* read(dateKey): the mapping a stored text holds, the empty mapping when
\* nothing is stored or the text holds no mapping.
RecordOf(raw) ==
    IF raw.kind = "object"
    THEN JsObject([k \in {m[1] : m \in raw.members} |->
                      (CHOOSE m \in raw.members : m[1] = k)[2]])
    ELSE EmptyState

StoredRecord(dateKey) == RecordOf(localStorage[storageKeyForDate(dateKey)])

\* A stored text that is no JSON, or JSON that is no mapping.
CorruptPayload(raw) == raw.kind \in {"empty", "garbage", "null"}

\* The colour a colour mesh shows: that of the material it shares.
MeshColor(mesh) == materialColor[MaterialOf(mesh)]

\* The seats whose seat pad is highlighted.
Highlighted == {s \in DOMAIN materialEmissive : materialEmissive[s] # 0}

\* The hits of a ray that lie inside a chair, nearest first.
ChairHits(ray) == SelectSeq(ray, LAMBDA n : n \in SeatMeshes)

(***************************************************************************)
(* C1                                                                      *)
(***************************************************************************)

\* C1: a date selection on a date whose stored payload is no JSON, or no
\* mapping, returns without an exception, leaves the empty mapping in
\* attendanceState and the selected date in currentDateKey.
C1_CorruptLoadRecovered ==
    [][\A d \in DateKeys :
          (dateChange(d) /\ CorruptPayload(localStorage[storageKeyForDate(d)]))
          => /\ ~uncaught'
             /\ attendanceState' = EmptyState
             /\ currentDateKey' = d]_vars

(***************************************************************************)
(* C2                                                                      *)
(***************************************************************************)

\* C2 as claimed: every stored record maps seat ids to "present" or
\* "absent" only.
C2_NeverStoresUnmarked ==
    \A key \in StorageKeys :
        \A m \in localStorage[key].members : m[2] \in {"present", "absent"}

\* C2 as amended: every stored record is a mapping of seat ids to one of the
\* three statuses, and the value "unmarked" enters a record only for a seat
\* of the current date that the record held as "absent" before.
C2_StoresStatusesOnly ==
    /\ \A key \in StorageKeys :
          \A m \in localStorage[key].members : m[2] \in {"present", "absent"}
    /\ [][/\ \A key \in StorageKeys :
                /\ localStorage'[key].kind \in {"missing", "object"}
                /\ \A m \in localStorage'[key].members :
                      /\ m[2] \in {"unmarked", "present", "absent"}
                      /\ (m[2] = "unmarked" /\ m \notin localStorage[key].members)
                         => /\ key = storageKeyForDate(currentDateKey)
                            /\ <<m[1], "absent">> \in localStorage[key].members]_vars

\* C2 witness: a record holds "unmarked" for a seat of the roster.
C2_Witness ==
    \E key \in StorageKeys :
        \E s \in RosterSeatIds : <<s, "unmarked">> \in localStorage[key].members

(***************************************************************************)
(* C3                                                                      *)
(***************************************************************************)

\* C3: wherever a click can happen, a click on the pad of seat s sets the
\* status of s to next(get(s)) and leaves the status of every other seat;
\* next has the three values claimed (a seat without entry counting as
\* unmarked) and three applications of it return the seat's status.
C3_ClickCycles ==
    /\ nextStatus("unmarked") = "present"
    /\ nextStatus("present") = "absent"
    /\ nextStatus("absent") = "unmarked"
    /\ nextStatus(Undefined) = "present"
    /\ sceneInitialized
       => \A s \in RosterSeatIds :
             /\ nextStatus(nextStatus(nextStatus(StatusOf(attendanceState, s))))
                   = StatusOf(attendanceState, s)
             /\ ~ENABLED
                   (/\ handlePointerDown(<<Node("seat", s)>>)
                    /\ ~(/\ StatusOf(attendanceState', s)
                               = nextStatus(StatusOf(attendanceState, s))
                         /\ \A t \in RosterSeatIds \ {s} :
                               StatusOf(attendanceState', t)
                                  = StatusOf(attendanceState, t)))

(***************************************************************************)
(* C4                                                                      *)
(***************************************************************************)

\* C4: once init has run, between two events the record stored under the
\* current date is the attendance state in memory.
C4_WriteThrough ==
    domLoaded => StoredRecord(currentDateKey) = attendanceState

(***************************************************************************)
(* C5                                                                      *)
(***************************************************************************)

\* C5: a step changes the record of a date only while that date is, and
\* stays, the current one; a date selection changes no record and leaves in
\* memory exactly the record of the selected date.
C5_DateIsolation ==
    [][/\ \A d \in DateKeys :
             localStorage'[storageKeyForDate(d)] # localStorage[storageKeyForDate(d)]
             => (d = currentDateKey /\ d = currentDateKey')
       /\ \A d \in DateKeys :
             dateChange(d)
             => /\ localStorage' = localStorage
                /\ attendanceState' = StoredRecord(d)]_vars

(***************************************************************************)
(* C6                                                                      *)
(***************************************************************************)

\* C6: wherever reset can happen, after resetDay every seat of the roster
\* is unmarked and the text stored under the current date is that of the
\* empty mapping.
C6_ResetClears ==
    sceneInitialized
    => ~ENABLED
          (/\ resetDay
           /\ ~(/\ \A s \in RosterSeatIds :
                      StatusOf(attendanceState', s) = "unmarked"
                /\ attendanceState' = EmptyState
                /\ localStorage'[storageKeyForDate(currentDateKey')]
                      = RawText("object", {})))

\* C6 witness: the text "{}", which only resetDay writes, is stored under
\* the current date.
C6_Witness ==
    /\ sceneInitialized
    /\ localStorage[storageKeyForDate(currentDateKey)] = RawText("object", {})

(***************************************************************************)
(* C7                                                                      *)
(***************************************************************************)

\* C7: once the scene is initialized, every colour mesh of every seat shows
\* the colour of the seat's status in attendanceState.
C7_ColorsFollowState ==
    sceneInitialized
    => \A s \in RosterSeatIds :
          \A i \in 1..Len(ColorMeshes(s)) :
              MeshColor(ColorMeshes(s)[i]) = STATUS_COLORS[StatusOf(attendanceState, s)]

(***************************************************************************)
(* C8                                                                      *)
(***************************************************************************)

\* C8: wherever export can happen, exportCSV hands over the header row and
\* then one row per seat in roster order, each with the current date, the
\* student and the seat's status (unmarked without an entry), and changes
\* neither the attendance state nor the store.
C8_ExportRows ==
    sceneInitialized
    => ~ENABLED
          (/\ exportCSV
           /\ ~(/\ Len(download'.rows) = TOTAL_SEATS + 1
                /\ download'.rows[1] = <<"Date", "Student", "Status">>
                /\ \A i \in 1..Len(RosterSeats) :
                      download'.rows[i + 1]
                         = <<currentDateKey, RosterSeats[i].student,
                             StatusOf(attendanceState, RosterSeats[i].seatId)>>
                /\ UNCHANGED <<attendanceState, localStorage>>))

(***************************************************************************)
(* C9                                                                      *)
(***************************************************************************)

\* The seat a ray should resolve to: that of its nearest hit inside a chair.
ExpectedSeat(ray) ==
    IF Len(ChairHits(ray)) = 0 THEN NoSeat ELSE ChairHits(ray)[1].seat

\* C9: a ray that strikes no mesh of a chair resolves to no seat, and the
\* handler then changes neither attendance state, store nor colours; a ray
\* whose nearest chair hit is any mesh of seat s resolves to s, whatever
\* else it strikes, and the handler then cycles the entry of s.
C9_HitTestResolves ==
    sceneInitialized
    => /\ \A ray \in Rays : resolvePointerDown(ray) = ExpectedSeat(ray)
       /\ ~ENABLED (/\ pointerDownAt(NoSeat)
                    /\ ~UNCHANGED <<attendanceState, localStorage, materialColor>>)
       /\ \A s \in RosterSeatIds :
             ~ENABLED (/\ pointerDownAt(s)
                       /\ attendanceState'
                             # SetProp(attendanceState, s,
                                       nextStatus(GetProp(attendanceState, s))))

\* C9 witness: the seat of column 1 carries a status and no other seat has
\* an entry: a click resolved to it; the store began empty.
C9_Witness ==
    /\ sceneInitialized
    /\ \E s \in RosterSeatIds :
          /\ s[1] = 1
          /\ DOMAIN attendanceState.entries = {s}

(***************************************************************************)
(* C10                                                                     *)
(***************************************************************************)

\* C10: at most one seat is highlighted and it is the seat of
\* hoveredSeatMesh, a seat pad; a pointer-move resolves to the seat pad of
\* the seat of the nearest chair hit, or to none, and leaves exactly that in
\* hoveredSeatMesh; it changes neither the attendance state nor the store.
C10_HoverHighlight ==
    /\ Cardinality(Highlighted) <= 1
    /\ Highlighted = IF hoveredSeatMesh = NoNode THEN {} ELSE {hoveredSeatMesh.seat}
    /\ hoveredSeatMesh # NoNode => hoveredSeatMesh.kind = "seat"
    /\ sceneInitialized
       => /\ \A ray \in Rays :
                resolvePointerMove(ray)
                   = IF ExpectedSeat(ray) = NoSeat THEN NoNode
                     ELSE Node("seat", ExpectedSeat(ray))
          /\ \A mesh \in {NoNode} \cup {Node("seat", s) : s \in RosterSeatIds} :
                ~ENABLED (/\ pointerMoveAt(mesh)
                          /\ ~(/\ hoveredSeatMesh' = mesh
                               /\ UNCHANGED <<attendanceState, localStorage>>))

\* C10 witness: a seat is highlighted while another seat carries the only
\* entry of the attendance state.
C10_Witness ==
    \E s \in RosterSeatIds :
        /\ hoveredSeatMesh = Node("seat", s)
        /\ materialEmissive[s] = 5592405
        /\ attendanceState.entries # EmptyEntries
        /\ s \notin DOMAIN attendanceState.entries

(***************************************************************************)
(* C11                                                                     *)
(***************************************************************************)

\* The number of roster seats whose status in state is the given one.
RosterCount(state, status) ==
    Cardinality({s \in RosterSeatIds : StatusOf(state, s) = status})

\* C11: once the scene is initialized, the displayed present and absent
\* counts are the numbers of roster seats whose current status is present,
\* respectively absent, whatever other keys the loaded record carries, so
\* that together they never exceed the total seat count.
C11_StaleKeysNotCounted ==
    sceneInitialized
    => /\ countPresent = RosterCount(attendanceState, "present")
       /\ countAbsent = RosterCount(attendanceState, "absent")
       /\ countPresent + countAbsent <= TOTAL_SEATS

====
